---- MODULE Spec2Model ----
(***************************************************************************)
(* A model of scripts/lint_yaml.py: the per-record validation              *)
(* (Validator.validate_person and the helpers it calls), the batch-scoped  *)
(* tables it fills, and the end-of-batch reconciliation and report.        *)
(*                                                                         *)
(* Conventions.  A Python dict is a TLA+ function; an absent key is a key  *)
(* outside its DOMAIN.  A Python list is a sequence.  None is the string   *)
(* "None".  An optional date argument is a sequence: << >> for None, <<d>> *)
(* for the date d.  A message built by an f-string is the sequence of its  *)
(* pieces (all strings).  A helper that can raise returns a record with    *)
(* the field exc: "None" when it returns normally, else the exception.     *)
(***************************************************************************)
EXTENDS Integers, Sequences, FiniteSets, TLC

VARIABLES
    today,              \* datetime.date.today(), fixed for one run
    pc,                 \* where lint()/process_dir() stands
    options,            \* the command line options of the run
    settings,           \* settings.yml
    todo,               \* the abbreviations lint() has still to process
    batch,              \* process_dir's position in its loops over the files
    expected,           \* Validator.expected
    errors,             \* Validator.errors
    warnings,           \* Validator.warnings
    active_legislators, \* Validator.active_legislators
    duplicate_values,   \* Validator.duplicate_values
    to_retire,          \* process_dir's to_retire (the error keys)
    result,             \* the ValidationResult shared by the batches of a run
    exit_status,        \* how the process ended, "None" while it runs
    last                \* the last call made and what it returned

vars == <<today, pc, options, settings, todo, batch, expected, errors, warnings,
          active_legislators, duplicate_values, to_retire, result, exit_status, last>>

-----------------------------------------------------------------------------
(* Bounds of the model. *)

MaxDate == 2
MaxRoles == 2
MaxOffices == 2

Dates == 1..MaxDate
OptDates == {<< >>} \cup {<<d>> : d \in Dates}

-----------------------------------------------------------------------------
(* Python's dict and list primitives. *)

None == "None"
EmptyDict == << >>

Get(d, k, default) == IF k \in DOMAIN d THEN d[k] ELSE default

Put(d, k, v) == (k :> v) @@ d

SeqsUpTo(S, n) == UNION {[1..k -> S] : k \in 0..n}

RECURSIVE Concat(_)
Concat(ss) == IF ss = << >> THEN << >> ELSE Head(ss) \o Concat(Tail(ss))

Digits == <<"1", "2", "3", "4", "5", "6", "7", "8", "9">>

\* str(n) of a small natural number
Str(n) == IF n = 0 THEN "0" ELSE IF n \in DOMAIN Digits THEN Digits[n] ELSE "many"

-----------------------------------------------------------------------------
(* utils.role_is_active: active iff the as-of date (the override, else     *)
(* today) lies within [start_date, end_date], an absent bound being open.  *)

role_is_active(role, date, now) ==
    LET asof == IF date = << >> THEN now ELSE date[1]
    IN  /\ ("start_date" \in DOMAIN role => role["start_date"] <= asof)
        /\ ("end_date" \in DOMAIN role => asof <= role["end_date"])

-----------------------------------------------------------------------------
(* The strings of the model and what the predicates of the schema make of  *)
(* them.  A predicate that is a regular expression or a prefix test in the *)
(* source is the set of the model's strings it accepts.                    *)

PersonIds == {"ocd-person/11111111-1111-1111-1111-111111111111",
              "ocd-person/22222222-2222-2222-2222-222222222222"}
BadIds == {"person-without-slash", "ocd-person/not-a-uuid"}
Multiline == {"line one\nline two"}
Urls == {"https://example.com/a", "http://example.com/b"}
Handles == {"janedoe"}
AtHandles == {"@janedoe"}
LegacyIds == {"ABL123456", "ABL000002"}
Phones == {"555-555-0001", "555-555-0002"}
BadPhones == {"5550001"}
JurisdictionIds == {"ocd-jurisdiction/country:us/state:va/government",
                    "ocd-jurisdiction/country:us/state:ne/government",
                    "ocd-jurisdiction/country:us/state:va/place:reston/government",
                    "ocd-jurisdiction/country:us/state:zz/government"}
Names == {"Al Roe", "Bo O'Dea"}
SuffixNames == {"Al Roe, Jr."}
BadCommaNames == {"Roe, Al"}
FamilyNames == {"Roe", "Poe", "O'Dea"}

is_string(val) == val \notin Multiline

is_multiline_string(val) == TRUE

\* a name without a comma, or with one comma followed by a suffix
no_bad_comma(val) == val \notin BadCommaNames

is_url(val) == is_string(val) /\ val \in Urls

is_social(val) == is_string(val) /\ val \notin Urls /\ val \notin AtHandles

\* dates are the model's integers, standing for datetime.date values
is_fuzzy_date(val) == val \in Int

is_phone(val) == is_string(val) /\ val \in Phones

is_ocd_jurisdiction(val) == is_string(val) /\ val \in JurisdictionIds

is_ocd_person(val) == is_string(val) /\ val \in PersonIds

is_legacy_openstates(val) == is_string(val) /\ val \in LegacyIds

ContactNotes == {"District Office", "Capitol Office", "Primary Office"}

\* validator(value) for the validator of that __name__
Holds(validator, val) ==
    CASE validator = "is_string" -> is_string(val)
      [] validator = "is_multiline_string" -> is_multiline_string(val)
      [] validator = "no_bad_comma" -> no_bad_comma(val)
      [] validator = "is_url" -> is_url(val)
      [] validator = "is_social" -> is_social(val)
      [] validator = "is_fuzzy_date" -> is_fuzzy_date(val)
      [] validator = "is_phone" -> is_phone(val)
      [] validator = "is_ocd_jurisdiction" -> is_ocd_jurisdiction(val)
      [] validator = "is_ocd_person" -> is_ocd_person(val)
      [] validator = "is_legacy_openstates" -> is_legacy_openstates(val)
      [] validator = "Enum('District Office', 'Capitol Office', 'Primary Office')"
            -> is_string(val) /\ val \in ContactNotes
      [] validator = "is_dict" -> TRUE

-----------------------------------------------------------------------------
(* The schema tables.  A schema is the ordered mapping of its dict         *)
(* literal: a sequence of <<field, validators>>, where validators is a     *)
(* list of validator names (Required among them), a nested schema, or a    *)
(* NestedList of a schema or of a validation function.                     *)

Required == "Required"

Leaf(validators) == [kind |-> "list", validators |-> validators]
Nested(schema) == [kind |-> "dict", schema |-> schema]
NestedList(subschema) == [kind |-> "NestedList", subschema |-> subschema, function |-> None]
NestedListOf(function) == [kind |-> "NestedList", subschema |-> << >>, function |-> function]

URL_LIST == NestedList(<< <<"note", Leaf(<<"is_string">>)>>,
                          <<"url", Leaf(<<"is_url", Required>>)>> >>)

CONTACT_DETAILS ==
    NestedList(<< <<"note", Leaf(<<"Enum('District Office', 'Capitol Office', 'Primary Office')",
                                   Required>>)>>,
                  <<"address", Leaf(<<"is_string">>)>>,
                  <<"voice", Leaf(<<"is_phone">>)>>,
                  <<"fax", Leaf(<<"is_phone">>)>> >>)

LEGISLATIVE_ROLE_FIELDS ==
    << <<"type", Leaf(<<"is_string", Required>>)>>,
       <<"district", Leaf(<<"is_string", Required>>)>>,
       <<"jurisdiction", Leaf(<<"is_ocd_jurisdiction", Required>>)>>,
       <<"start_date", Leaf(<<"is_fuzzy_date">>)>>,
       <<"end_date", Leaf(<<"is_fuzzy_date">>)>>,
       <<"end_reason", Leaf(<<"is_string">>)>>,
       <<"contact_details", CONTACT_DETAILS>> >>

EXECUTIVE_ROLE_FIELDS ==
    << <<"type", Leaf(<<"is_string", Required>>)>>,
       <<"jurisdiction", Leaf(<<"is_ocd_jurisdiction", Required>>)>>,
       <<"start_date", Leaf(<<"is_fuzzy_date">>)>>,
       <<"end_date", Leaf(<<"is_fuzzy_date", Required>>)>>,
       <<"contact_details", CONTACT_DETAILS>> >>

DATED_NAME_FIELDS ==
    << <<"name", Leaf(<<"is_string", Required>>)>>,
       <<"start_date", Leaf(<<"is_fuzzy_date">>)>>,
       <<"end_date", Leaf(<<"is_fuzzy_date">>)>> >>

PERSON_FIELDS ==
    << <<"id", Leaf(<<"is_ocd_person", Required>>)>>,
       <<"name", Leaf(<<"is_string", "no_bad_comma", Required>>)>>,
       <<"sort_name", Leaf(<<"is_string">>)>>,
       <<"given_name", Leaf(<<"is_string">>)>>,
       <<"family_name", Leaf(<<"is_string">>)>>,
       <<"middle_name", Leaf(<<"is_string">>)>>,
       <<"email", Leaf(<<"is_string">>)>>,
       <<"suffix", Leaf(<<"is_string">>)>>,
       <<"gender", Leaf(<<"is_string">>)>>,
       <<"biography", Leaf(<<"is_multiline_string">>)>>,
       <<"birth_date", Leaf(<<"is_fuzzy_date">>)>>,
       <<"death_date", Leaf(<<"is_fuzzy_date">>)>>,
       <<"image", Leaf(<<"is_url">>)>>,
       <<"contact_details", CONTACT_DETAILS>>,
       <<"links", URL_LIST>>,
       <<"ids", Nested(<< <<"twitter", Leaf(<<"is_social">>)>>,
                          <<"youtube", Leaf(<<"is_social">>)>>,
                          <<"instagram", Leaf(<<"is_social">>)>>,
                          <<"facebook", Leaf(<<"is_social">>)>>,
                          <<"legacy_openstates", Leaf(<<"is_legacy_openstates">>)>> >>)>>,
       <<"other_identifiers",
         NestedList(<< <<"identifier", Leaf(<<"is_string", Required>>)>>,
                       <<"scheme", Leaf(<<"is_string", Required>>)>>,
                       <<"start_date", Leaf(<<"is_fuzzy_date">>)>>,
                       <<"end_date", Leaf(<<"is_fuzzy_date">>)>> >>)>>,
       <<"other_names", NestedList(DATED_NAME_FIELDS)>>,
       <<"sources", URL_LIST>>,
       <<"party", NestedList(DATED_NAME_FIELDS)>>,
       <<"roles", NestedListOf("is_role")>>,
       <<"extras", Leaf(<<"is_dict">>)>> >>

-----------------------------------------------------------------------------
(* validate_obj and is_role.  A value that is not a mapping where the      *)
(* record tree holds one is NonDict(text); an ordered mapping that is      *)
(* walked in order (an office) is a sequence of <<key, value>> pairs and   *)
(* ToDict gives its mapping.  The result is [exc, errors].                 *)

NonDict(text) == [nondict |-> text]

\* the mapping of an ordered mapping
ToDict(pairs) ==
    [key \in {pairs[i][1] : i \in DOMAIN pairs} |->
        pairs[CHOOSE i \in DOMAIN pairs : pairs[i][1] = key][2]]

\* isinstance(obj, dict)
is_dict(obj) == "nondict" \notin DOMAIN obj

LEGISLATIVE_ROLE_TYPES == {"upper", "lower", "legislature"}
EXECUTIVE_ROLE_TYPES ==
    {"governor", "lt_governor", "mayor", "chief election officer", "secretary of state"}

\* a set as the list of its elements, in the order the run walks it
RECURSIVE SetToSeq(_)
SetToSeq(S) ==
    IF S = {} THEN << >>
    ELSE LET x == CHOOSE y \in S : TRUE IN <<x>> \o SetToSeq(S \ {x})

SchemaKeys(schema) == {schema[k][1] : k \in DOMAIN schema}

Raise(exc) == [exc |-> exc, errors |-> << >>]
Return(errs) == [exc |-> None, errors |-> errs]

\* errors.extend(call), the exception of the call propagating
Extend(acc, call) ==
    IF acc.exc # None THEN acc
    ELSE IF call.exc # None THEN [exc |-> call.exc, errors |-> acc.errors]
    ELSE Return(acc.errors \o call.errors)

\* the errors of the validators of a present leaf field, in declaration order
LeafErrors(validators, prefix, field, value) ==
    LET failed == SelectSeq(validators,
                            LAMBDA v : v # Required /\ ~Holds(v, value))
    IN  [k \in DOMAIN failed |->
            <<"failed validation", failed[k], value>> \o prefix \o <<field>>]

\* ".".join([field, str(index)]) + ": " + e for the errors of the call
Prefixed(field, index, call) ==
    [exc |-> call.exc,
     errors |-> [k \in DOMAIN call.errors |-> <<field, index, ": ">> \o call.errors[k]]]

\* the loop over the keys that went without validation, after the loop over
\* the schema
WithExtraKeys(fields, obj, schema, prefix) ==
    IF fields.exc # None THEN Raise(fields.exc)
    ELSE Return(fields.errors
                \o [k \in DOMAIN SetToSeq(DOMAIN obj \ SchemaKeys(schema)) |->
                       <<"extra key">> \o prefix
                          \o <<SetToSeq(DOMAIN obj \ SchemaKeys(schema))[k]>>])

\* lines 258-263, with every missing field reported
Visited_every(obj, entry) == TRUE

\* whether the loop over schema.items() does anything for the entry: its
\* field is present, or missing and Required
Visited(obj, entry) ==
    \/ entry[1] \in DOMAIN obj
    \/ /\ entry[2].kind = "list"
       /\ \E i \in DOMAIN entry[2].validators : entry[2].validators[i] = Required

RECURSIVE validate_obj(_, _, _)
RECURSIVE FieldLoop(_, _, _, _, _)
RECURSIVE FieldErrors(_, _, _, _)
RECURSIVE ItemLoop(_, _, _, _, _)
RECURSIVE is_role(_)

is_role(role) ==
    IF ~is_dict(role) THEN Raise("AttributeError")
    ELSE IF Get(role, "type", None) \notin LEGISLATIVE_ROLE_TYPES \cup EXECUTIVE_ROLE_TYPES
      THEN Return(<< <<"invalid type">> >>)
    ELSE validate_obj(role,
                      IF role.type \in LEGISLATIVE_ROLE_TYPES
                        THEN LEGISLATIVE_ROLE_FIELDS
                        ELSE EXECUTIVE_ROLE_FIELDS,
                      << >>)

\* the loop over the elements of a NestedList value, from element n on
ItemLoop(value, validators, field, n, acc) ==
    IF n > Len(value) \/ acc.exc # None THEN acc
    ELSE ItemLoop(value, validators, field, n + 1,
                  Extend(acc,
                         IF validators.function = None
                           THEN validate_obj(IF field = "contact_details"
                                               THEN ToDict(value[n])
                                               ELSE value[n],
                                             validators.subschema, <<field, Str(n - 1)>>)
                           ELSE Prefixed(field, Str(n - 1), is_role(value[n]))))

\* one turn of the loop over schema.items(), for a visited entry
FieldErrors(obj, field, validators, prefix) ==
    IF field \notin DOMAIN obj THEN Return(<< <<"missing">> \o prefix \o <<field>> >>)
    ELSE CASE validators.kind = "list" ->
                 Return(LeafErrors(validators.validators, prefix, field, obj[field]))
           [] validators.kind = "dict" ->
                 validate_obj(obj[field], validators.schema, <<field>>)
           [] validators.kind = "NestedList" ->
                 ItemLoop(obj[field], validators, field, 1, Return(<< >>))

\* the loop over schema.items(), from entry k of the visited ones on
FieldLoop(obj, entries, prefix, k, acc) ==
    IF k > Len(entries) \/ acc.exc # None THEN acc
    ELSE FieldLoop(obj, entries, prefix, k + 1,
                   Extend(acc, FieldErrors(obj, entries[k][1], entries[k][2], prefix)))

validate_obj(obj, schema, prefix) ==
    IF ~is_dict(obj) THEN Raise(IF schema # << >> THEN "ValueError" ELSE "AttributeError")
    ELSE WithExtraKeys(FieldLoop(obj, SelectSeq(schema, LAMBDA entry : Visited(obj, entry)),
                                 prefix, 1, Return(<< >>)),
                       obj, schema, prefix)

-----------------------------------------------------------------------------
(* validate_roles *)

ActiveOf(person, roles_key, date, now) ==
    SelectSeq(Get(person, roles_key, << >>), LAMBDA role : role_is_active(role, date, now))

\* validate_roles with the upper bound on active roles off by one
validate_roles_off_by_one(person, roles_key, retired, date, now) ==
    LET active == ActiveOf(person, roles_key, date, now)
    IN  IF Len(active) = 0 /\ ~retired
          THEN << <<"no active ", roles_key>> >>
        ELSE IF roles_key = "roles" /\ retired /\ Len(active) > 0
          THEN << <<Str(Len(active)), " active roles on retired person">> >>
        ELSE IF roles_key = "roles" /\ Len(active) > 0
          THEN << <<Str(Len(active)), " active roles">> >>
        ELSE << >>

validate_roles(person, roles_key, retired, date, now) ==
    LET active == ActiveOf(person, roles_key, date, now)
    IN  IF Len(active) = 0 /\ ~retired
          THEN << <<"no active ", roles_key>> >>
        ELSE IF roles_key = "roles" /\ retired /\ Len(active) > 0
          THEN << <<Str(Len(active)), " active roles on retired person">> >>
        ELSE IF roles_key = "roles" /\ Len(active) > 1
          THEN << <<Str(Len(active)), " active roles">> >>
        ELSE << >>

-----------------------------------------------------------------------------
(* validate_offices.  An office is the ordered mapping of its YAML entry:  *)
(* a sequence of <<key, value>> pairs with distinct keys.                  *)

OfficeKeys(office) == {office[i][1] : i \in DOMAIN office}

OfficeGet(office, key) == office[CHOOSE i \in DOMAIN office : office[i][1] = key][2]

\* OfficeItems remembering a value under its field key only
RECURSIVE OfficeItems_per_key(_, _, _, _)
OfficeItems_per_key(office, i, note, st) ==
    IF i > Len(office) THEN st
    ELSE LET key == office[i][1]
             value == office[i][2]
         IN  IF key = "note" THEN OfficeItems_per_key(office, i + 1, note, st)
             ELSE LET location_str == <<note, key>>
                      errs == IF <<key, value>> \in DOMAIN st.seen_values
                                THEN Append(st.errors,
                                            <<"Value used multiple times", value>>
                                              \o st.seen_values[<<key, value>>] \o location_str)
                                ELSE st.errors
                  IN  OfficeItems_per_key(office, i + 1, note,
                                  [seen_values |-> Put(st.seen_values, <<key, value>>, location_str),
                                   errors |-> errs])

\* the inner loop over office.items(); st is [seen_values, errors]
RECURSIVE OfficeItems(_, _, _, _)
OfficeItems(office, i, note, st) ==
    IF i > Len(office) THEN st
    ELSE LET key == office[i][1]
             value == office[i][2]
         IN  IF key = "note" THEN OfficeItems(office, i + 1, note, st)
             ELSE LET location_str == <<note, key>>
                      errs == IF value \in DOMAIN st.seen_values
                                THEN Append(st.errors,
                                            <<"Value used multiple times", value>>
                                              \o st.seen_values[value] \o location_str)
                                ELSE st.errors
                  IN  OfficeItems(office, i + 1, note,
                                  [seen_values |-> Put(st.seen_values, value, location_str),
                                   errors |-> errs])

\* the loop over contact_details; st is [exc, seen_values, errors, type_counter]
RECURSIVE OfficeLoop(_, _, _)
OfficeLoop(contact_details, n, st) ==
    IF n > Len(contact_details) \/ st.exc # None THEN st
    ELSE LET office == contact_details[n]
         IN  IF "note" \notin OfficeKeys(office)
               THEN [st EXCEPT !.exc = "KeyError"]
               ELSE LET note == OfficeGet(office, "note")
                        inner == OfficeItems(office, 1, note,
                                             [seen_values |-> st.seen_values,
                                              errors |-> st.errors])
                    IN  OfficeLoop(contact_details, n + 1,
                                   [exc |-> None,
                                    seen_values |-> inner.seen_values,
                                    errors |-> inner.errors,
                                    type_counter |-> Put(st.type_counter, note,
                                                         Get(st.type_counter, note, 0) + 1)])

validate_offices(person) ==
    LET contact_details == Get(person, "contact_details", << >>)
        st == OfficeLoop(contact_details, 1,
                         [exc |-> None, seen_values |-> EmptyDict,
                          errors |-> << >>, type_counter |-> EmptyDict])
    IN  IF st.exc # None THEN [exc |-> st.exc, errors |-> << >>]
        ELSE [exc |-> None,
              errors |-> IF Get(st.type_counter, "Capitol Office", 0) > 1
                           THEN Append(st.errors, <<"Multiple capitol offices, condense to one.">>)
                           ELSE st.errors]

-----------------------------------------------------------------------------
(* names_consistent.  str.lower, str.split and NON_ENGLISH_CHARS.sub are   *)
(* tabulated for the names of the model: Tokens gives the tokens of a      *)
(* name, lower-cased, each run of non-letters replaced by ".", as lists of *)
(* characters.  The matching itself is computed.                           *)

Tokens(name) ==
    CASE name = "Al Roe" -> << <<"a", "l">>, <<"r", "o", "e">> >>
      [] name = "Bo O'Dea" -> << <<"b", "o">>, <<"o", ".", "d", "e", "a">> >>
      [] name = "Al Roe, Jr." -> << <<"a", "l">>, <<"r", "o", "e", ".">>, <<"j", "r", ".">> >>
      [] name = "Roe, Al" -> << <<"r", "o", "e", ".">>, <<"a", "l">> >>
      [] name = "line one\nline two" ->
            << <<"l", "i", "n", "e">>, <<"o", "n", "e">>, <<"l", "i", "n", "e">>,
               <<"t", "w", "o">> >>
      [] name = "Roe" -> << <<"r", "o", "e">> >>
      [] name = "Poe" -> << <<"p", "o", "e">> >>
      [] name = "O'Dea" -> << <<"o", ".", "d", "e", "a">> >>
      [] name = "" -> << >>

\* re.match(f".*{pattern}.*", text): the pattern occurs in the text, "." standing
\* for any character
ReMatch(pattern, text) ==
    \E offset \in 0..(Len(text) - Len(pattern)) :
        \A i \in DOMAIN pattern :
            pattern[i] = "." \/ pattern[i] = text[offset + i]

names_consistent(person) ==
    LET family_names == Get(person, "family_name", "")
    IN  IF family_names = "" THEN TRUE
        ELSE LET names == Tokens(Get(person, "name", ""))
                 fns == Tokens(family_names)
             IN  \E f \in DOMAIN fns, n \in DOMAIN names :
                     ReMatch(fns[f], names[n]) \/ ReMatch(names[n], fns[f])

-----------------------------------------------------------------------------
(* validate_jurisdictions.  metadata.lookup(jurisdiction_id=...) finds the *)
(* jurisdictions of StateJurisdictions and raises KeyError for the rest.   *)

StateJurisdictions == {"ocd-jurisdiction/country:us/state:va/government",
                       "ocd-jurisdiction/country:us/state:ne/government"}

validate_jurisdictions(person, municipalities) ==
    LET roles == Get(person, "roles", << >>)
        bad == SelectSeq(roles,
                   LAMBDA role :
                       LET jid == Get(role, "jurisdiction", None)
                       IN  /\ jid # None
                           /\ jid \notin StateJurisdictions
                           /\ jid \notin municipalities)
    IN  [k \in DOMAIN bad |-> <<bad[k].jurisdiction, " is not a valid jurisdiction_id">>]

-----------------------------------------------------------------------------
(* get_expected_districts.  metadata.lookup(abbr=...) is Metadata: the     *)
(* chambers of the jurisdiction, each with its districts and their seats.  *)

Metadata(abbr) ==
    CASE abbr = "va" ->
           << [chamber_type |-> "upper",
               districts |-> << [name |-> "1", num_seats |-> 1] >>],
              [chamber_type |-> "lower",
               districts |-> << [name |-> "1", num_seats |-> 2],
                                [name |-> "2", num_seats |-> 1] >>] >>
      [] abbr = "ne" ->
           << [chamber_type |-> "unicameral",
               districts |-> << [name |-> "1", num_seats |-> 1] >>] >>

ChamberSeats(chamber) ==
    [name \in {chamber.districts[i].name : i \in DOMAIN chamber.districts} |->
        chamber.districts[CHOOSE i \in DOMAIN chamber.districts :
                              /\ chamber.districts[i].name = name
                              /\ \A j \in DOMAIN chamber.districts :
                                    chamber.districts[j].name = name => j <= i].num_seats]

ChType(chamber) ==
    IF chamber.chamber_type = "unicameral" THEN "legislature" ELSE chamber.chamber_type

MetadataSeats(abbr) ==
    LET chambers == Metadata(abbr)
    IN  [chtype \in {ChType(chambers[i]) : i \in DOMAIN chambers} |->
            ChamberSeats(chambers[CHOOSE i \in DOMAIN chambers :
                                      /\ ChType(chambers[i]) = chtype
                                      /\ \A j \in DOMAIN chambers :
                                            ChType(chambers[j]) = chtype => j <= i])]

\* line 363, taking the seat out of the table altogether
Decrement_to_zero(exp, chamber, district) == [exp EXCEPT ![chamber][district] = 0]

\* line 363: expected[chamber][district] -= 1
Decrement(exp, chamber, district) == [exp EXCEPT ![chamber][district] = @ - 1]

\* the loop over the vacancies, from vacancy n on; the result is [exc, expected]
RECURSIVE VacancyLoop(_, _, _, _)
VacancyLoop(vacancies, n, exp, now) ==
    IF n > Len(vacancies) THEN [exc |-> None, expected |-> exp]
    ELSE LET vacancy == vacancies[n]
             chamber == vacancy.chamber
             district == Str(vacancy.district)
         IN  IF now < vacancy.vacant_until
               THEN IF chamber \notin DOMAIN exp \/ district \notin DOMAIN exp[chamber]
                      THEN [exc |-> "KeyError", expected |-> exp]
                      ELSE VacancyLoop(vacancies, n + 1,
                                       Decrement(exp, chamber, district), now)
               ELSE [exc |-> "BadVacancy", expected |-> exp]

\* lines 349-374, without the loop over the vacancies
get_expected_districts_no_vacancies(yml, abbr, now) ==
    [exc |-> None, expected |-> MetadataSeats(abbr)]

get_expected_districts(yml, abbr, now) ==
    VacancyLoop(Get(Get(yml, abbr, EmptyDict), "vacancies", << >>), 1,
                MetadataSeats(abbr), now)

-----------------------------------------------------------------------------
(* compare_districts.  The result is [exc, errors]. *)

\* sorted(S) of a set of district names: the names of the model are the
\* digit strings, which sort as Digits lists them; None does not compare
\* with a string
Rank(name) == CHOOSE i \in DOMAIN Digits : Digits[i] = name

RECURSIVE SortNames(_)
SortNames(S) ==
    IF S = {} THEN << >>
    ELSE LET least == CHOOSE x \in S : \A y \in S : Rank(x) <= Rank(y)
         IN  <<least>> \o SortNames(S \ {least})

Sorted(S) ==
    IF None \in S
      THEN IF Cardinality(S) > 1 THEN Raise("TypeError") ELSE Return(<<None>>)
      ELSE Return(SortNames(S))

\* lines 388-391, without the district's own error
MissingError_none(expected_seats, chamber, district) == << >>

\* lines 388-391: a district of the expected seats nobody is registered for
MissingError(expected_seats, chamber, district) ==
    IF expected_seats[chamber][district] # 0
      THEN << <<"missing legislator for", chamber, district>> >>
      ELSE << >>

\* lines 394-397, with the two comparisons taken as <= and >=
BothErrors_or_equal(expected_seats, actual, chamber, district) ==
    (IF Len(actual[chamber][district]) <= expected_seats[chamber][district]
       THEN << <<"missing legislator for", chamber, district>> >>
       ELSE << >>)
    \o (IF Len(actual[chamber][district]) >= expected_seats[chamber][district]
          THEN << <<"extra legislator for", chamber, district>>
                     \o actual[chamber][district] >>
          ELSE << >>)

\* lines 394-397: a district both expected and registered
BothErrors(expected_seats, actual, chamber, district) ==
    (IF Len(actual[chamber][district]) < expected_seats[chamber][district]
       THEN << <<"missing legislator for", chamber, district>> >>
       ELSE << >>)
    \o (IF Len(actual[chamber][district]) > expected_seats[chamber][district]
          THEN << <<"extra legislator for", chamber, district>>
                     \o actual[chamber][district] >>
          ELSE << >>)

DistrictErrors(expected_seats, actual, chamber) ==
    LET expected_districts == DOMAIN expected_seats[chamber]
        actual_districts == DOMAIN actual[chamber]
        missing == Sorted(expected_districts \ actual_districts)
        extra == Sorted(actual_districts \ expected_districts)
        both == Sorted(actual_districts \cap expected_districts)
    IN  IF missing.exc # None THEN Raise(missing.exc)
        ELSE LET e1 == Concat([k \in DOMAIN missing.errors |->
                                  MissingError(expected_seats, chamber, missing.errors[k])])
             IN  IF extra.exc # None THEN [exc |-> extra.exc, errors |-> e1]
                 ELSE LET e2 == [k \in DOMAIN extra.errors |->
                                    <<"extra legislator for unexpected seat", chamber,
                                      extra.errors[k]>>]
                      IN  IF both.exc # None THEN [exc |-> both.exc, errors |-> e1 \o e2]
                          ELSE Return(e1 \o e2
                                      \o Concat([k \in DOMAIN both.errors |->
                                                    BothErrors(expected_seats, actual, chamber,
                                                               both.errors[k])]))

RECURSIVE ChamberLoop(_, _, _, _, _)
ChamberLoop(expected_seats, actual, chambers, n, acc) ==
    IF n > Len(chambers) \/ acc.exc # None THEN acc
    ELSE ChamberLoop(expected_seats, actual, chambers, n + 1,
                     Extend(acc, DistrictErrors(expected_seats, actual, chambers[n])))

\* lines 380-382, with the chambers of the legislators only required to
\* cover the expected ones
compare_districts_covering(expected_seats, actual) ==
    IF ~(DOMAIN expected_seats \subseteq DOMAIN actual)
      THEN Return(<< <<"expected districts for">> \o SetToSeq(DOMAIN expected_seats)
                       \o <<"got">> \o SetToSeq(DOMAIN actual) >>)
      ELSE ChamberLoop(expected_seats, actual, SetToSeq(DOMAIN expected_seats), 1,
                       Return(<< >>))

compare_districts(expected_seats, actual) ==
    IF DOMAIN expected_seats # DOMAIN actual
      THEN Return(<< <<"expected districts for">> \o SetToSeq(DOMAIN expected_seats)
                       \o <<"got">> \o SetToSeq(DOMAIN actual) >>)
      ELSE ChamberLoop(expected_seats, actual, SetToSeq(DOMAIN expected_seats), 1,
                       Return(<< >>))

-----------------------------------------------------------------------------
(* Validator.check_duplicates *)

\* lines 564-568, without the cut after three filenames
InstanceStr_all(instances) == instances

InstanceStr(instances) ==
    IF Len(instances) > 3
      THEN SubSeq(instances, 1, 3) \o <<"and", Str(Len(instances) - 3), "more...">>
      ELSE instances

check_duplicates(dups) ==
    LET keys == SetToSeq({kv \in UNION {{<<key, value>> : value \in DOMAIN dups[key]} :
                                           key \in DOMAIN dups} :
                             Len(dups[kv[1]][kv[2]]) > 1})
    IN  [k \in DOMAIN keys |->
            <<"duplicate", keys[k][1], keys[k][2]>>
               \o InstanceStr(dups[keys[k][1]][keys[k][2]])]

-----------------------------------------------------------------------------
(* Validator.validate_old_district_names.  The result is [exc, errors]. *)

RECURSIVE OldDistrictLoop(_, _, _, _, _)
OldDistrictLoop(expected_seats, legacy, roles, n, acc) ==
    IF n > Len(roles) \/ acc.exc # None THEN acc
    ELSE LET role == roles[n]
             one ==
                IF "district" \notin DOMAIN role THEN Return(<< >>)
                ELSE IF "type" \notin DOMAIN role \/ role.type \notin DOMAIN expected_seats
                  THEN Raise("KeyError")
                ELSE IF role.district \in DOMAIN expected_seats[role.type] THEN Return(<< >>)
                ELSE IF role.type \notin DOMAIN legacy THEN Raise("KeyError")
                ELSE IF role.district \in legacy[role.type] THEN Return(<< >>)
                ELSE Return(<< <<"unknown district name: ", role.type, role.district>> >>)
         IN  OldDistrictLoop(expected_seats, legacy, roles, n + 1, Extend(acc, one))

validate_old_district_names(expected_seats, legacy, person) ==
    OldDistrictLoop(expected_seats, legacy, Get(person, "roles", << >>), 1, Return(<< >>))

-----------------------------------------------------------------------------
(* Validator.validate_person.  self is the Validator: [expected, errors,   *)
(* warnings, active_legislators, duplicate_values, valid_parties,          *)
(* municipalities, legacy_districts].  The result is the exception raised  *)
(* (or None) and the Validator's tables as the call leaves them.           *)

\* utils.MAJOR_PARTIES
MAJOR_PARTIES == {"Democratic", "Republican"}

\* person["id"].split("/")
SplitSlash(id) ==
    CASE id = "ocd-person/11111111-1111-1111-1111-111111111111" ->
            <<"ocd-person", "11111111-1111-1111-1111-111111111111">>
      [] id = "ocd-person/22222222-2222-2222-2222-222222222222" ->
            <<"ocd-person", "22222222-2222-2222-2222-222222222222">>
      [] id = "ocd-person/not-a-uuid" -> <<"ocd-person", "not-a-uuid">>
      [] id = "person-without-slash" -> <<"person-without-slash">>

Filenames == {"Al-Roe-11111111-1111-1111-1111-111111111111.yml",
              "Bo-ODea-22222222-2222-2222-2222-222222222222.yml"}

\* uid in filename, for the id pieces and the file names of the model
Contains(filename, uid) ==
    \/ /\ uid = "11111111-1111-1111-1111-111111111111"
       /\ filename = "Al-Roe-11111111-1111-1111-1111-111111111111.yml"
    \/ /\ uid = "22222222-2222-2222-2222-222222222222"
       /\ filename = "Bo-ODea-22222222-2222-2222-2222-222222222222.yml"

\* table[k1][k2].append(filename) on a defaultdict of defaultdicts of lists
Register(table, k1, k2, filename) ==
    LET inner == Get(table, k1, EmptyDict)
    IN  Put(table, k1, Put(inner, k2, Append(Get(inner, k2, << >>), filename)))

\* the loop over person["party"], from entry n on; st is [exc, errors, active_parties]
RECURSIVE PartyLoop(_, _, _, _, _)
PartyLoop(parties, n, valid_parties, now, st) ==
    IF n > Len(parties) \/ st.exc # None THEN st
    ELSE LET party == parties[n]
         IN  IF "name" \notin DOMAIN party THEN [st EXCEPT !.exc = "KeyError"]
             ELSE PartyLoop(parties, n + 1, valid_parties, now,
                    [exc |-> None,
                     errors |-> IF party.name \notin valid_parties
                                  THEN Append(st.errors, <<"invalid party ", party.name>>)
                                  ELSE st.errors,
                     active_parties |-> IF role_is_active(party, << >>, now)
                                          THEN Append(st.active_parties, party.name)
                                          ELSE st.active_parties])

\* line 494, with one major party being enough
MultipleMajor_one(active_parties) ==
    Len(SelectSeq(active_parties, LAMBDA party : party \in MAJOR_PARTIES)) > 0

\* line 494: more than one of the active parties is a major one
MultipleMajor(active_parties) ==
    Len(SelectSeq(active_parties, LAMBDA party : party \in MAJOR_PARTIES)) > 1

\* the active party validation: [exc, errors, warnings] to add
PartyChecks(person, valid_parties, now) ==
    LET st == PartyLoop(Get(person, "party", << >>), 1, valid_parties, now,
                        [exc |-> None, errors |-> << >>, active_parties |-> << >>])
    IN  IF st.exc # None THEN [exc |-> st.exc, errors |-> st.errors, warnings |-> << >>]
        ELSE IF Len(st.active_parties) > 1
          THEN IF MultipleMajor(st.active_parties)
                 THEN [exc |-> None,
                       errors |-> Append(st.errors,
                                         <<"multiple active major party memberships">>
                                            \o st.active_parties),
                       warnings |-> << >>]
                 ELSE [exc |-> None,
                       errors |-> st.errors,
                       warnings |-> << <<"multiple active party memberships">>
                                          \o st.active_parties >>]
        ELSE [exc |-> None, errors |-> st.errors, warnings |-> << >>]

\* the date the role-count check of the party memberships is given
PartyRolesDate(date) == << >>

\* lines 470-506: what follows validate_obj, up to the registration of the
\* identifiers; [exc, errors, warnings], errors starting from validate_obj's
PersonChecks(self, person, filename, person_type, date, now, schema_errors) ==
    IF "id" \notin DOMAIN person
      THEN [exc |-> "KeyError", errors |-> schema_errors, warnings |-> << >>]
    ELSE IF Len(SplitSlash(person.id)) < 2
      THEN [exc |-> "IndexError", errors |-> schema_errors, warnings |-> << >>]
    ELSE
      LET uid == SplitSlash(person.id)[2]
          e1 == schema_errors
                \o (IF ~Contains(filename, uid)
                      THEN << <<"id piece ", uid, " not in filename">> >> ELSE << >>)
                \o (IF ~names_consistent(person)
                      THEN << <<"inconsistent names", Get(person, "family_name", ""),
                                Get(person, "name", "")>> >>
                      ELSE << >>)
                \o validate_jurisdictions(person, self.municipalities)
                \o validate_roles(person, "roles", person_type = "RETIRED", date, now)
                \o (IF person_type \in {"LEGISLATIVE", "EXECUTIVE"}
                      THEN validate_roles(person, "party", FALSE, PartyRolesDate(date), now)
                      ELSE << >>)
          offices == validate_offices(person)
      IN  IF offices.exc # None
            THEN [exc |-> offices.exc, errors |-> e1, warnings |-> << >>]
          ELSE
            LET e2 == e1 \o offices.errors
                parties == PartyChecks(person, self.valid_parties, now)
            IN  IF parties.exc # None
                  THEN [exc |-> parties.exc, errors |-> e2 \o parties.errors,
                        warnings |-> << >>]
                ELSE IF person_type # "RETIRED"
                  THEN [exc |-> None, errors |-> e2 \o parties.errors,
                        warnings |-> parties.warnings]
                ELSE
                  LET old == validate_old_district_names(self.expected,
                                                         self.legacy_districts, person)
                  IN  [exc |-> old.exc,
                       errors |-> e2 \o parties.errors \o old.errors,
                       warnings |-> parties.warnings]

\* the loop over person["ids"].items()
RECURSIVE RegisterIds(_, _, _, _, _)
RegisterIds(dups, ids, schemes, n, filename) ==
    IF n > Len(schemes) THEN dups
    ELSE RegisterIds(Register(dups, schemes[n], ids[schemes[n]], filename),
                     ids, schemes, n + 1, filename)

\* the loop over person["other_identifiers"]; the result is [exc, dups]
RECURSIVE RegisterOther(_, _, _, _)
RegisterOther(dups, others, n, filename) ==
    IF n > Len(others) THEN [exc |-> None, dups |-> dups]
    ELSE IF "scheme" \notin DOMAIN others[n] \/ "identifier" \notin DOMAIN others[n]
      THEN [exc |-> "KeyError", dups |-> dups]
    ELSE RegisterOther(Register(dups, others[n].scheme, others[n].identifier, filename),
                       others, n + 1, filename)

\* lines 508-512: [exc, dups]
RegisterDuplicates(dups, person, filename) ==
    LET ids == Get(person, "ids", EmptyDict)
    IN  RegisterOther(RegisterIds(dups, ids, SetToSeq(DOMAIN ids), 1, filename),
                      Get(person, "other_identifiers", << >>), 1, filename)

\* the date the search for the active role is given
ActiveRoleDate(date) == date

\* lines 515-522: [exc, active]
UpdateActiveLegislators(active, person, filename, date, now) ==
    LET roles == Get(person, "roles", << >>)
        actives == {n \in DOMAIN roles : role_is_active(roles[n], ActiveRoleDate(date), now)}
    IN  IF actives = {} THEN [exc |-> None, active |-> Register(active, None, None, filename)]
        ELSE LET role == roles[CHOOSE n \in actives : \A m \in actives : n <= m]
             IN  IF "type" \notin DOMAIN role THEN [exc |-> "KeyError", active |-> active]
                 ELSE [exc |-> None,
                       active |-> Register(active, role.type, Get(role, "district", None),
                                           filename)]

Tables(self, exc, errs, warns, dups, active) ==
    [exc |-> exc, errors |-> errs, warnings |-> warns,
     duplicate_values |-> dups, active_legislators |-> active]

validate_person(self, person, filename, person_type, date, now) ==
    LET schema == validate_obj(person, PERSON_FIELDS, << >>)
    IN  IF schema.exc # None
          THEN Tables(self, schema.exc, self.errors, self.warnings,
                      self.duplicate_values, self.active_legislators)
        ELSE
          LET checks == PersonChecks(self, person, filename, person_type, date, now,
                                     schema.errors)
              errs == Put(self.errors, filename, checks.errors)
              warns == IF checks.warnings = << >> THEN self.warnings
                       ELSE Put(self.warnings, filename,
                                Get(self.warnings, filename, << >>) \o checks.warnings)
          IN  IF checks.exc # None
                THEN Tables(self, checks.exc, errs, warns,
                            self.duplicate_values, self.active_legislators)
              ELSE
                LET reg == RegisterDuplicates(self.duplicate_values, person, filename)
                IN  IF reg.exc # None \/ person_type # "LEGISLATIVE"
                      THEN Tables(self, reg.exc, errs, warns, reg.dups,
                                  self.active_legislators)
                    ELSE
                      LET upd == UpdateActiveLegislators(self.active_legislators, person,
                                                         filename, date, now)
                      IN  Tables(self, upd.exc, errs, warns, reg.dups, upd.active)

-----------------------------------------------------------------------------
(* ValidationResult and Validator.print_validation_report. *)

EmptyResult == [errors |-> << >>, errors_by_filename |-> EmptyDict,
                warnings_by_filename |-> EmptyDict]

error_count(res) == Len(res.errors) + Cardinality(DOMAIN res.errors_by_filename)

\* lines 597-605, without the "if msgs" filter
WithMessages_all(table) == table

\* {fn: msgs for fn, msgs in table.items() if msgs}
WithMessages(table) == [fn \in {f \in DOMAIN table : table[f] # << >>} |-> table[fn]]

\* dict.update
Update(d, other) == other @@ d

\* [exc, result]: the exception raised (or None) and the collector as the call leaves it
print_validation_report(self, result_collector) ==
    LET duplicates == check_duplicates(self.duplicate_values)
        districts == compare_districts(self.expected, self.active_legislators)
    IN  IF districts.exc # None THEN [exc |-> districts.exc, result |-> result_collector]
        ELSE [exc |-> None,
              result |->
                 [errors |-> result_collector.errors \o duplicates \o districts.errors,
                  errors_by_filename |->
                     Update(result_collector.errors_by_filename, WithMessages(self.errors)),
                  warnings_by_filename |->
                     Update(result_collector.warnings_by_filename,
                            WithMessages(self.warnings))]]

-----------------------------------------------------------------------------
(* lint and process_dir: the run as a state machine. *)

MaxFiles == 2

ERROR_NO_ACTIVE_ROLES == <<"no active ", "roles">>

PersonTypes == <<"LEGISLATIVE", "RETIRED", "EXECUTIVE", "MUNICIPAL">>

\* utils.load_municipalities: the ids of the municipalities of the jurisdiction
Municipalities(abbr) ==
    IF abbr = "va" THEN {"ocd-jurisdiction/country:us/state:va/place:reston/government"}
    ELSE {}

\* utils.legacy_districts: the legacy district names by chamber type
LegacyDistricts(abbr) ==
    IF abbr = "va" THEN [upper |-> {"9"}, lower |-> {}] ELSE [legislature |-> {"9"}]

Self ==
    [expected |-> expected, errors |-> errors, warnings |-> warnings,
     active_legislators |-> active_legislators, duplicate_values |-> duplicate_values,
     valid_parties |-> settings.parties,
     municipalities |-> Municipalities(batch.abbr),
     legacy_districts |-> LegacyDistricts(batch.abbr)]

NoBatch == [abbr |-> None, ncalls |-> 0, type_index |-> 1, seen |-> {}]

InitRun(Options, Settings) ==
    /\ today \in Dates
    /\ options \in Options
    /\ settings \in Settings
    /\ todo = options.abbreviations
    /\ pc = "lint"
    /\ batch = NoBatch
    /\ expected = EmptyDict
    /\ errors = EmptyDict
    /\ warnings = EmptyDict
    /\ active_legislators = EmptyDict
    /\ duplicate_values = EmptyDict
    /\ to_retire = {}
    /\ result = EmptyResult
    /\ exit_status = None
    /\ last = [op |-> "lint"]

\* the process ends with an uncaught exception or sys.exit
Exits(status) ==
    /\ pc' = "exit"
    /\ exit_status' = status

\* process_dir, lines 632-644: the settings are read and the Validator is built
StartBatch ==
    /\ pc = "lint"
    /\ todo # << >>
    /\ LET abbr == Head(todo)
           exp == get_expected_districts(settings, abbr, today)
       IN  /\ last' = [op |-> "Validator", abbr |-> abbr, exc |-> exp.exc]
           /\ IF exp.exc = "BadVacancy"
                THEN /\ Exits("-1")
                     /\ UNCHANGED <<batch, expected>>
              ELSE IF exp.exc # None
                THEN /\ Exits(exp.exc)
                     /\ UNCHANGED <<batch, expected>>
              ELSE IF \E m \in Municipalities(abbr) : ~is_ocd_jurisdiction(m)
                THEN /\ Exits("ValueError")
                     /\ UNCHANGED <<batch, expected>>
              ELSE /\ pc' = "validate"
                   /\ batch' = [NoBatch EXCEPT !.abbr = abbr, !.ncalls = batch.ncalls]
                   /\ expected' = exp.expected
                   /\ UNCHANGED exit_status
    /\ UNCHANGED <<today, options, settings, todo, errors, warnings, active_legislators,
                   duplicate_values, to_retire, result>>

\* process_dir, lines 660-664: what the loop does once validate_person has
\* ended with ret
Validated(ret, person, filename, t) ==
    /\ errors' = ret.errors
    /\ warnings' = ret.warnings
    /\ duplicate_values' = ret.duplicate_values
    /\ active_legislators' = ret.active_legislators
    /\ last' = [op |-> "validate_person", person |-> person, filename |-> filename,
                person_type |-> PersonTypes[t], exc |-> ret.exc,
                before |-> Get(warnings, filename, << >>)]
    /\ IF ret.exc # None
         THEN /\ Exits(ret.exc)
              /\ UNCHANGED <<batch, to_retire>>
         ELSE /\ batch' = [abbr |-> batch.abbr,
                           ncalls |-> batch.ncalls + 1,
                           type_index |-> t,
                           seen |-> IF t = batch.type_index
                                      THEN batch.seen \cup {filename}
                                      ELSE {filename}]
              /\ to_retire' =
                    IF /\ options.retire
                       /\ \E i \in DOMAIN ret.errors[filename] :
                             ret.errors[filename][i] = ERROR_NO_ACTIVE_ROLES
                      THEN to_retire \cup {filename}
                      ELSE to_retire
              /\ UNCHANGED <<pc, exit_status>>

\* process_dir, lines 657-664: one file of the next directory is validated
ValidatePerson(person, filename, t) ==
    /\ pc = "validate"
    /\ batch.ncalls < MaxFiles     \* the files of the whole run
    /\ t >= batch.type_index
    /\ t = batch.type_index => filename \notin batch.seen
    /\ PersonTypes[t] = "MUNICIPAL" => options.municipal
    /\ Validated(validate_person(Self, person, filename, PersonTypes[t], options.date, today),
                 person, filename, t)
    /\ UNCHANGED <<today, options, settings, todo, expected, result>>

\* validator.errors after the persons of to_retire were retired (lines 665-677)
AfterRetire(errs, retired) ==
    [fn \in DOMAIN errs |->
        IF fn \in retired
          THEN SelectSeq(errs[fn], LAMBDA err : err # ERROR_NO_ACTIVE_ROLES)
          ELSE errs[fn]]

\* process_dir, lines 665-678: the report of the batch is merged into the
\* collector and process_dir returns to lint's loop
EndBatch ==
    /\ pc = "validate"
    /\ LET self == [Self EXCEPT !.errors = AfterRetire(errors, to_retire)]
           ret == print_validation_report(self, result)
       IN  /\ result' = ret.result
           /\ last' = [op |-> "print_validation_report", exc |-> ret.exc, self |-> self,
                       abbr |-> batch.abbr, before |-> result,
                       duplicates |-> check_duplicates(duplicate_values),
                       districts |-> compare_districts(expected, active_legislators)]
           /\ IF ret.exc # None
                THEN /\ Exits(ret.exc)
                     /\ errors' = self.errors
                     /\ UNCHANGED <<todo, batch, expected, warnings, active_legislators,
                                    duplicate_values, to_retire>>
                ELSE /\ pc' = "lint"
                     /\ todo' = Tail(todo)
                     /\ batch' = [NoBatch EXCEPT !.ncalls = batch.ncalls]
                     /\ expected' = EmptyDict
                     /\ errors' = EmptyDict
                     /\ warnings' = EmptyDict
                     /\ active_legislators' = EmptyDict
                     /\ duplicate_values' = EmptyDict
                     /\ to_retire' = {}
                     /\ UNCHANGED exit_status
    /\ UNCHANGED <<today, options, settings>>

\* lint, lines 720-723: every batch is done
EndLint ==
    /\ pc = "lint"
    /\ todo = << >>
    /\ Exits(IF error_count(result) # 0 THEN "99" ELSE "0")
    /\ last' = [op |-> "exit", error_count |-> error_count(result)]
    /\ UNCHANGED <<today, options, settings, todo, batch, expected, errors, warnings,
                   active_legislators, duplicate_values, to_retire, result>>

-----------------------------------------------------------------------------
(* Inputs of the model: the record trees the calls are given. *)

\* a role or party entry with its optional date bounds
WithDates(base, s, e) ==
    base @@ (IF s = << >> THEN EmptyDict ELSE [start_date |-> s[1]])
         @@ (IF e = << >> THEN EmptyDict ELSE [end_date |-> e[1]])

DatedEntries(base) == {WithDates(base, s, e) : s \in OptDates, e \in OptDates}

\* a person holding only the list under roles_key, or not even the key
RolePersons(roles_key, base) ==
    {EmptyDict} \cup {(roles_key :> rs) : rs \in SeqsUpTo(DatedEntries(base), MaxRoles)}

OfficeNotes == {"District Office", "Capitol Office"}
OfficeFieldKeys == {"voice", "fax"}
OfficeValues == {"555-0001", "555-0002"}

\* the field lists of an office: distinct keys, in either order
OfficeFields ==
    {fs \in SeqsUpTo(OfficeFieldKeys \X OfficeValues, Cardinality(OfficeFieldKeys)) :
        \A i, j \in DOMAIN fs : i # j => fs[i][1] # fs[j][1]}

Offices == {<< <<"note", n>> >> \o fs : n \in OfficeNotes, fs \in OfficeFields}

VA == "ocd-jurisdiction/country:us/state:va/government"
NE == "ocd-jurisdiction/country:us/state:ne/government"
RESTON == "ocd-jurisdiction/country:us/state:va/place:reston/government"
Id1 == "ocd-person/11111111-1111-1111-1111-111111111111"
Id2 == "ocd-person/22222222-2222-2222-2222-222222222222"

ValidParties == {"Democratic", "Republican", "Green", "Libertarian"}

\* settings.yml: the parties, and the vacancies of each abbreviation
SettingsYml(vacancies) == [parties |-> ValidParties] @@ vacancies

NoVacancies == SettingsYml(EmptyDict)

OpenRole(type, district, jurisdiction) ==
    [type |-> type, district |-> district, jurisdiction |-> jurisdiction]

Member(name) == [name |-> name]

CapitolOffice == << <<"note", "Capitol Office">>, <<"voice", "555-555-0001">> >>

\* a legislator of Nebraska's district 1 with nothing to report
GoodLegislator ==
    [id |-> Id1, name |-> "Al Roe", family_name |-> "Roe",
     roles |-> << OpenRole("legislature", "1", NE) >>,
     party |-> << Member("Democratic") >>,
     contact_details |-> << CapitolOffice >>,
     ids |-> [twitter |-> "janedoe"]]

Without(person, key) == [k \in DOMAIN person \ {key} |-> person[k]]

\* the records of the general run, each with the directory it lies in
\* (an index of PersonTypes)
GeneralRecords ==
    { <<GoodLegislator, 1>>,
      \* two active minor parties: a warning and no error
      <<[GoodLegislator EXCEPT !.party = << Member("Green"), Member("Libertarian") >>], 1>>,
      \* no id
      <<Without(GoodLegislator, "id"), 1>>,
      \* an id without "/"
      <<[GoodLegislator EXCEPT !.id = "person-without-slash"], 1>>,
      \* ids is not a mapping
      <<[GoodLegislator EXCEPT !.ids = NonDict("janedoe")], 1>>,
      \* a party membership without a name
      <<[GoodLegislator EXCEPT !.party = << [start_date |-> 1] >>], 1>>,
      \* the only role has ended
      <<[GoodLegislator EXCEPT !.roles = << WithDates(OpenRole("legislature", "1", NE),
                                                       << >>, <<0>>) >>], 1>>,
      \* a bad name, an unknown party, an undeclared key, an unknown jurisdiction
      <<[id |-> Id2, name |-> "Roe, Al", family_name |-> "Poe", nickname |-> "Al",
         roles |-> << OpenRole("legislature", "1",
                               "ocd-jurisdiction/country:us/state:zz/government") >>,
         party |-> << Member("Whig") >>], 1>>,
      \* a retired legislator of a legacy district
      <<[id |-> Id2, name |-> "Bo O'Dea",
         roles |-> << WithDates(OpenRole("legislature", "9", NE), << >>, <<0>>) >>], 2>>,
      \* a retired governor whose role names a district
      <<[id |-> Id2, name |-> "Bo O'Dea",
         roles |-> << WithDates(OpenRole("governor", "1", NE), << >>, <<0>>) >>], 2>>,
      \* a governor whose office has no note
      <<[id |-> Id2, name |-> "Bo O'Dea",
         roles |-> << WithDates([type |-> "governor", jurisdiction |-> NE], << >>, <<1>>) >>,
         party |-> << Member("Republican") >>,
         contact_details |-> << << <<"voice", "555-555-0002">> >> >>], 3>>,
      \* a mayor
      <<[id |-> Id2, name |-> "Bo O'Dea",
         roles |-> << WithDates([type |-> "mayor", jurisdiction |-> RESTON],
                                << >>, <<MaxDate>>) >>], 4>> }

GeneralOptions ==
    [date : {<< >>}, retire : BOOLEAN, municipal : BOOLEAN,
     abbreviations : {<<"ne">>, <<"ne", "va">>}]

Init == InitRun(GeneralOptions, {NoVacancies})

Next ==
    \/ StartBatch
    \/ \E rec \in GeneralRecords, filename \in Filenames :
          ValidatePerson(rec[1], filename, rec[2])
    \/ EndBatch
    \/ EndLint

Spec == Init /\ [][Next]_vars

(* Runs over the vacancy lists of Virginia's settings. *)

MaxVacancies == 2

\* the vacancy declarations of the model: seats of Virginia's lower chamber
Vacancies ==
    [chamber : {"lower"}, district : {1, 2}, vacant_until : 1..(MaxDate + 1)]

VacancySettings ==
    {NoVacancies}
    \cup {SettingsYml([va |-> [vacancies |-> vs]]) : vs \in SeqsUpTo(Vacancies, MaxVacancies)}

Senator ==
    [id |-> Id1, name |-> "Al Roe",
     roles |-> << OpenRole("upper", "1", VA) >>, party |-> << Member("Democratic") >>]

InitVacancy ==
    InitRun([date : {<< >>}, retire : {FALSE}, municipal : {TRUE},
             abbreviations : {<<"va">>, <<"ne", "va">>}],
            VacancySettings)

NextVacancy ==
    \/ StartBatch
    \/ \E filename \in Filenames : ValidatePerson(Senator, filename, 1)
    \/ EndBatch
    \/ EndLint

SpecVacancy == InitVacancy /\ [][NextVacancy]_vars

(* Runs over the roles of the legislators: the seat reconciliation. *)

Holding(id, roles) == [id |-> id, name |-> "Al Roe", roles |-> roles]

Ended(role) == WithDates(role, << >>, <<1>>)

SeatRecords ==
    {<<Holding(Id1, << OpenRole(seat[1], seat[2], VA) >>), 1>> :
        seat \in {<<"upper", "1">>, <<"lower", "1">>, <<"lower", "2">>,
                  <<"legislature", "1">>, <<"legislature", "2">>}}
    \cup { \* the only role ends on day 1
           <<Holding(Id1, << Ended(OpenRole("lower", "1", VA)) >>), 1>>,
           \* the role that ends on day 1 comes before the open one
           <<Holding(Id2, << Ended(OpenRole("lower", "1", VA)),
                             OpenRole("lower", "2", VA) >>), 1>>,
           \* an executive role, without a district, in the legislature's directory
           <<Holding(Id2, << [type |-> "governor", jurisdiction |-> VA] >>), 1>>,
           \* a retired senator whose role ends on day 1
           <<Holding(Id2, << Ended(OpenRole("upper", "1", VA)) >>), 2>> }

SeatSettings ==
    {NoVacancies,
     SettingsYml([va |-> [vacancies |->
                    << [chamber |-> "lower", district |-> 1,
                        vacant_until |-> MaxDate + 1] >>]])}

InitSeats ==
    InitRun([date : {<< >>, <<1>>}, retire : {FALSE}, municipal : {TRUE},
             abbreviations : {<<"va">>, <<"ne">>}],
            SeatSettings)

NextSeats ==
    \/ StartBatch
    \/ \E rec \in SeatRecords, filename \in Filenames :
          ValidatePerson(rec[1], filename, rec[2])
    \/ EndBatch
    \/ EndLint

SpecSeats == InitSeats /\ [][NextSeats]_vars

(* Runs over the identifiers of the records: the duplicate values. *)

Twitter(handle) == [scheme |-> "twitter", identifier |-> handle]

IdRecords ==
    {[id |-> Id1, name |-> "Al Roe"] @@ extra :
        extra \in {EmptyDict,
                   [ids |-> [twitter |-> "janedoe"]],
                   [other_identifiers |-> << Twitter("janedoe") >>],
                   [ids |-> [twitter |-> "janedoe"],
                    other_identifiers |-> << Twitter("janedoe"), Twitter("janedoe") >>],
                   [ids |-> [twitter |-> "janedoe", legacy_openstates |-> "ABL123456"],
                    other_identifiers |-> << Twitter("janedoe") >>],
                   [ids |-> [youtube |-> "janedoe"],
                    other_identifiers |-> << [scheme |-> "legacy_openstates",
                                              identifier |-> "ABL123456"] >>]}}

InitIds ==
    InitRun([date : {<< >>}, retire : {FALSE}, municipal : {TRUE},
             abbreviations : {<<"ne">>}],
            {NoVacancies})

NextIds ==
    \/ StartBatch
    \/ \E person \in IdRecords, filename \in Filenames, t \in {1, 2} :
          ValidatePerson(person, filename, t)
    \/ EndBatch
    \/ EndLint

SpecIds == InitIds /\ [][NextIds]_vars

(* Runs over the party memberships and the as-of date. *)

From(member, d) == WithDates(member, <<d>>, << >>)
Until(member, d) == WithDates(member, << >>, <<d>>)

PartyLists ==
    { << >>,
      << Member("Democratic") >>,
      << From(Member("Democratic"), MaxDate) >>,
      << Until(Member("Republican"), 1), From(Member("Democratic"), MaxDate) >>,
      << Member("Democratic"), Member("Republican") >>,
      << Member("Democratic"), Member("Democratic") >>,
      << Member("Democratic"), Member("Green") >>,
      << Member("Green"), Member("Libertarian") >>,
      << Until(Member("Green"), 1), Member("Libertarian") >>,
      << Member("Democratic"), Until(Member("Republican"), 1), Member("Green") >>,
      << Member("Democratic"), Member("Republican"), Member("Green") >> }

PartyRecords ==
    {[id |-> Id1, name |-> "Al Roe",
      roles |-> << OpenRole("legislature", "1", NE) >>, party |-> ps] : ps \in PartyLists}
    \cup {[id |-> Id1, name |-> "Al Roe",
           roles |-> << From(OpenRole("legislature", "1", NE), MaxDate) >>]}

InitParty ==
    InitRun([date : OptDates, retire : {FALSE}, municipal : {TRUE},
             abbreviations : {<<"ne">>}],
            {NoVacancies})

NextParty ==
    \/ StartBatch
    \/ \E person \in PartyRecords, t \in {1, 2} :
          ValidatePerson(person, "Al-Roe-11111111-1111-1111-1111-111111111111.yml", t)
    \/ EndBatch
    \/ EndLint

SpecParty == InitParty /\ [][NextParty]_vars

-----------------------------------------------------------------------------
(* The state while one helper is called on its own. *)

Idle ==
    /\ options = EmptyDict
    /\ settings = EmptyDict
    /\ todo = << >>
    /\ batch = EmptyDict
    /\ expected = EmptyDict
    /\ errors = EmptyDict
    /\ warnings = EmptyDict
    /\ active_legislators = EmptyDict
    /\ duplicate_values = EmptyDict
    /\ to_retire = {}
    /\ result = EmptyDict
    /\ exit_status = None

Returns(ret) ==
    /\ pc = "call"
    /\ pc' = "returned"
    /\ last' = [last EXCEPT !.ret = ret]
    /\ UNCHANGED <<today, options, settings, todo, batch, expected, errors, warnings,
                   active_legislators, duplicate_values, to_retire, result, exit_status>>

(* validate_roles called on its own *)

InitRoles ==
    /\ today \in Dates
    /\ pc = "call"
    /\ Idle
    /\ \E roles_key \in {"roles", "party"}, retired \in BOOLEAN, date \in OptDates :
         \E person \in RolePersons(roles_key, IF roles_key = "roles"
                                               THEN [type |-> "upper"]
                                               ELSE [name |-> "Democratic"]) :
            last = [op |-> "validate_roles", person |-> person, roles_key |-> roles_key,
                    retired |-> retired, date |-> date, ret |-> << >>]

CallValidateRoles ==
    /\ last.op = "validate_roles"
    /\ Returns(validate_roles(last.person, last.roles_key, last.retired, last.date, today))

SpecRoles == InitRoles /\ [][CallValidateRoles]_vars

(* validate_offices called on its own *)

InitOffices ==
    /\ today \in Dates
    /\ pc = "call"
    /\ Idle
    /\ \E cd \in SeqsUpTo(Offices, MaxOffices) :
         \E person \in {EmptyDict, [contact_details |-> cd]} :
            last = [op |-> "validate_offices", person |-> person,
                    ret |-> [exc |-> None, errors |-> << >>]]

CallValidateOffices ==
    /\ last.op = "validate_offices"
    /\ Returns(validate_offices(last.person))

SpecOffices == InitOffices /\ [][CallValidateOffices]_vars

-----------------------------------------------------------------------------
(* Claims about the run: vacancies, exceptions, reconciliation, duplicate  *)
(* identifiers and the collected result.                                   *)

Range(seq) == {seq[i] : i \in DOMAIN seq}

VacanciesOf(abbr) == Get(Get(settings, abbr, EmptyDict), "vacancies", << >>)

\* some vacancy declared for abbr has its vacant_until in the past
HasExpiredVacancy(abbr) ==
    \E i \in DOMAIN VacanciesOf(abbr) : VacanciesOf(abbr)[i].vacant_until < today

\* C1: a batch whose settings declare a vacancy with vacant_until in the past
\* never gets to validate a record or to report: the step that builds its
\* Validator ends the process with BadVacancy and the exit status -1, and no
\* error or warning is recorded for the batch.
C1_ExpiredVacancyAborts ==
    /\ pc = "validate" => ~HasExpiredVacancy(batch.abbr)
    /\ (last.op = "Validator" /\ HasExpiredVacancy(last.abbr)) =>
          /\ last.exc = "BadVacancy"
          /\ pc = "exit"
          /\ exit_status = "-1"
          /\ errors = EmptyDict
          /\ warnings = EmptyDict
          /\ active_legislators = EmptyDict

\* the expired vacancy comes after one that is still open, and after a
\* batch that was processed
C1_Witness ==
    /\ pc = "exit"
    /\ exit_status = "-1"
    /\ last.op = "Validator"
    /\ last.abbr = "va"
    /\ Len(VacanciesOf("va")) = 2
    /\ VacanciesOf("va")[1].vacant_until > today
    /\ VacanciesOf("va")[2].vacant_until < today
    /\ options.abbreviations = <<"ne", "va">>
    /\ result # EmptyResult

\* C2 as stated: every validate_person call returns normally and the batch
\* goes on.
C2_AsStated ==
    last.op = "validate_person" => (last.exc = None /\ pc = "validate")

\* the report of a batch was produced
Reported == last.op = "print_validation_report" /\ last.exc = None

\* the number of filenames registered for the district of the chamber
Filed(actual, chamber, district) ==
    IF chamber \in DOMAIN actual /\ district \in DOMAIN actual[chamber]
      THEN Len(actual[chamber][district])
      ELSE 0

Seats(table) == UNION {{<<chamber, district>> : district \in DOMAIN table[chamber]} :
                          chamber \in DOMAIN table}

\* the expected seats with a positive count and fewer registered filenames
Short(expected_seats, actual) ==
    {seat \in Seats(expected_seats) :
        /\ expected_seats[seat[1]][seat[2]] > 0
        /\ Filed(actual, seat[1], seat[2]) < expected_seats[seat[1]][seat[2]]}

KeyMismatch(expected_seats, actual) ==
    <<"expected districts for">> \o SetToSeq(DOMAIN expected_seats)
        \o <<"got">> \o SetToSeq(DOMAIN actual)

\* C3 (as amended): when the expected seats and the active legislators have
\* the same chamber keys, reconciliation reports "missing legislator" for
\* every expected seat with a positive count that is absent from the active
\* legislators or has fewer registered filenames than seats; when the chamber
\* keys differ, it reports the one key mismatch and nothing else.
C3_MissingReported ==
    Reported =>
        LET expected_seats == last.self.expected
            actual == last.self.active_legislators
            errs == last.districts.errors
        IN  IF DOMAIN expected_seats = DOMAIN actual
              THEN \A seat \in Short(expected_seats, actual) :
                      <<"missing legislator for", seat[1], seat[2]>> \in Range(errs)
              ELSE errs = << KeyMismatch(expected_seats, actual) >>

\* both chambers have a legislator, one district is short and one is absent
C3_Witness ==
    /\ Reported
    /\ DOMAIN last.self.expected = {"upper", "lower"}
    /\ DOMAIN last.self.active_legislators = {"upper", "lower"}
    /\ \E a, b \in Short(last.self.expected, last.self.active_legislators) :
          /\ Filed(last.self.active_legislators, a[1], a[2]) = 1
          /\ b[2] \notin DOMAIN last.self.active_legislators[b[1]]
          /\ <<"missing legislator for", a[1], a[2]>> \in Range(last.districts.errors)
          /\ <<"missing legislator for", b[1], b[2]>> \in Range(last.districts.errors)

\* C3 as stated: "missing legislator" is reported for every expected seat
\* with a positive count that is absent or short, whatever the two tables.
C3_AsStated ==
    Reported =>
        \A seat \in Short(last.self.expected, last.self.active_legislators) :
            <<"missing legislator for", seat[1], seat[2]>> \in Range(last.districts.errors)

\* the errors of the reconciliation that are about the district of the chamber
About(errs, chamber, district) ==
    {i \in DOMAIN errs : Len(errs[i]) >= 3 /\ errs[i][2] = chamber /\ errs[i][3] = district}

\* what C4 says of one seat that is in both tables
SeatVerdict(expected_seats, actual, errs, chamber, district) ==
    LET filed == actual[chamber][district]
        seats == expected_seats[chamber][district]
        about == About(errs, chamber, district)
    IN  /\ Len(filed) < seats =>
            /\ Cardinality(about) = 1
            /\ \A i \in about : errs[i] = <<"missing legislator for", chamber, district>>
        /\ Len(filed) > seats =>
            /\ Cardinality(about) = 1
            /\ \A i \in about : errs[i] = <<"extra legislator for", chamber, district>> \o filed
        /\ Len(filed) = seats => about = {}

InBoth(expected_seats, actual) == Seats(expected_seats) \cap Seats(actual)

\* C4 (as amended): when the expected seats and the active legislators have
\* the same chamber keys, a seat in both tables gets exactly one "missing
\* legislator" error if fewer filenames are registered than seats, exactly
\* one "extra legislator" error listing every registered filename if more,
\* and no error if as many.
C4_SeatCounts ==
    (Reported /\ DOMAIN last.self.expected = DOMAIN last.self.active_legislators) =>
        \A seat \in InBoth(last.self.expected, last.self.active_legislators) :
            SeatVerdict(last.self.expected, last.self.active_legislators,
                        last.districts.errors, seat[1], seat[2])

\* a seat with one expected legislator and two registered filenames
C4_Witness ==
    /\ Reported
    /\ DOMAIN last.self.expected = DOMAIN last.self.active_legislators
    /\ \E seat \in InBoth(last.self.expected, last.self.active_legislators) :
          /\ Len(last.self.active_legislators[seat[1]][seat[2]]) = 2
          /\ last.self.expected[seat[1]][seat[2]] = 1
          /\ \E i \in DOMAIN last.districts.errors :
                last.districts.errors[i][1] = "extra legislator for"

\* C4 as stated: the same verdict for every seat in both tables, whatever
\* the chamber keys of the two tables.
C4_AsStated ==
    Reported =>
        \A seat \in InBoth(last.self.expected, last.self.active_legislators) :
            SeatVerdict(last.self.expected, last.self.active_legislators,
                        last.districts.errors, seat[1], seat[2])

\* the (scheme, value) keys with more than one registered filename
Duplicated(dups) == {key \in Seats(dups) : Len(dups[key[1]][key[2]]) > 1}

\* C5: check_duplicates emits exactly one error for each (scheme, value) key
\* with more than one registered filename and none for the others; the error
\* names every registered filename when there are 2 or 3, and otherwise the
\* first 3 in registration order followed by the count of the others.
C5_CheckDuplicates ==
    Reported =>
        LET dups == last.self.duplicate_values
            errs == last.duplicates
        IN  /\ Len(errs) = Cardinality(Duplicated(dups))
            /\ \A key \in Duplicated(dups) :
                 LET instances == dups[key[1]][key[2]]
                     about == About(errs, key[1], key[2])
                 IN  /\ Cardinality(about) = 1
                     /\ \A i \in about :
                          /\ errs[i][1] = "duplicate"
                          /\ SubSeq(errs[i], 4, Len(errs[i])) =
                                IF Len(instances) \in {2, 3} THEN instances
                                ELSE <<instances[1], instances[2], instances[3],
                                       "and", Str(Len(instances) - 3), "more...">>

\* one key with more than 3 registered filenames and one with 2
C5_Witness ==
    /\ Reported
    /\ \E a, b \in Duplicated(last.self.duplicate_values) :
          /\ Len(last.self.duplicate_values[a[1]][a[2]]) > 3
          /\ Len(last.self.duplicate_values[b[1]][b[2]]) = 2
    /\ Len(last.duplicates) = 2

\* the filenames with at least one error in the collected result
WithErrors(res) ==
    {fn \in DOMAIN res.errors_by_filename : Len(res.errors_by_filename[fn]) >= 1}

\* C6: in the collected result every filename of errors_by_filename and of
\* warnings_by_filename has a non-empty list; a filename with an error in the
\* batch just reported is in errors_by_filename with these errors;
\* error_count() is the number of aggregate errors plus the number of
\* filenames with at least one error; and the run exits with the non-zero
\* status iff there is an aggregate error or a filename with an error,
\* whatever the warnings.
C6_ErrorCount ==
    pc \in {"lint", "validate", "exit"} =>
        /\ \A fn \in DOMAIN result.errors_by_filename :
              result.errors_by_filename[fn] # << >>
        /\ \A fn \in DOMAIN result.warnings_by_filename :
              result.warnings_by_filename[fn] # << >>
        /\ Reported =>
              /\ \A fn \in DOMAIN last.self.errors :
                    last.self.errors[fn] # << >> =>
                       /\ fn \in DOMAIN result.errors_by_filename
                       /\ result.errors_by_filename[fn] = last.self.errors[fn]
              /\ \A fn \in DOMAIN last.self.warnings :
                    last.self.warnings[fn] # << >> =>
                       /\ fn \in DOMAIN result.warnings_by_filename
                       /\ result.warnings_by_filename[fn] = last.self.warnings[fn]
              /\ Len(result.errors) = Len(last.before.errors) + Len(last.duplicates)
                                         + Len(last.districts.errors)
        /\ error_count(result) = Len(result.errors) + Cardinality(WithErrors(result))
        /\ last.op = "exit" =>
              /\ last.error_count = Len(result.errors) + Cardinality(WithErrors(result))
              /\ exit_status = "99" <=> (result.errors # << >> \/ WithErrors(result) # {})
              /\ exit_status = "0" <=> (result.errors = << >> /\ WithErrors(result) = {})

\* a run that produced a warning and no error exits with the status 0
C6_Witness ==
    /\ pc = "exit"
    /\ exit_status = "0"
    /\ result.warnings_by_filename # EmptyDict
    /\ result.errors = << >>
    /\ result.errors_by_filename = EmptyDict

-----------------------------------------------------------------------------
(* Claims about validate_roles and validate_offices. *)

Returned(op) == pc = "returned" /\ last.op = op

\* the number of entries under the call's key that are active as of its date
NumActive ==
    LET entries == Get(last.person, last.roles_key, << >>)
    IN  Cardinality({i \in DOMAIN entries : role_is_active(entries[i], last.date, today)})

IsCardinalityError(e) == e[2] \in {" active roles", " active roles on retired person"}

\* C7: validate_roles returns "no active <key>" iff no entry under the key is
\* active and the record is not retired; for "roles" it returns a role-count
\* error iff the record is retired with >= 1 active role or not retired with
\* > 1; for "party" it returns nothing for any number >= 1 of active
\* memberships; and it never returns more than one error.
C7_ValidateRoles ==
    Returned("validate_roles") =>
        LET ret == last.ret
            n == NumActive
        IN  /\ (\E i \in DOMAIN ret : ret[i] = <<"no active ", last.roles_key>>)
                  <=> (n = 0 /\ ~last.retired)
            /\ last.roles_key = "roles" =>
                  ((\E i \in DOMAIN ret : IsCardinalityError(ret[i]))
                      <=> ((last.retired /\ n >= 1) \/ (~last.retired /\ n > 1)))
            /\ (last.roles_key = "party" /\ n >= 1) => ret = << >>
            /\ Len(ret) <= 1

C7_Witness ==
    /\ Returned("validate_roles")
    /\ last.roles_key = "roles"
    /\ ~last.retired
    /\ NumActive = 2
    /\ last.ret = << <<"2", " active roles">> >>

\* the <<office index, item index>> positions of the non-note fields holding v
Holders(person, v) ==
    LET cd == Get(person, "contact_details", << >>)
    IN  {<<n, i>> \in (DOMAIN cd) \X (1..(1 + Cardinality(OfficeFieldKeys))) :
            /\ i \in DOMAIN cd[n]
            /\ cd[n][i][1] # "note"
            /\ cd[n][i][2] = v}

Before(a, b) == a[1] < b[1] \/ (a[1] = b[1] /\ a[2] < b[2])

DupValueErrors(ret, v) ==
    {i \in DOMAIN ret.errors :
        ret.errors[i][1] = "Value used multiple times" /\ ret.errors[i][2] = v}

\* C10 (as amended): for every value, validate_offices produces one
\* duplicate-value error per holder of the value after the first, whatever
\* the field keys; a value held by exactly two fields yields exactly one
\* error, naming the office label and field key of both; and there is no
\* duplicate-value error iff no value is held twice.
C10_ValidateOffices ==
    Returned("validate_offices") =>
        LET cd == Get(last.person, "contact_details", << >>)
            ret == last.ret
        IN  /\ ret.exc = None
            /\ \A v \in OfficeValues :
                 LET hs == Holders(last.person, v)
                 IN  /\ Cardinality(DupValueErrors(ret, v))
                           = IF hs = {} THEN 0 ELSE Cardinality(hs) - 1
                     /\ Cardinality(hs) = 2 =>
                          \E a, b \in hs :
                             /\ Before(a, b)
                             /\ \E i \in DOMAIN ret.errors :
                                  ret.errors[i] =
                                     <<"Value used multiple times", v,
                                       OfficeGet(cd[a[1]], "note"), cd[a[1]][a[2]][1],
                                       OfficeGet(cd[b[1]], "note"), cd[b[1]][b[2]][1]>>

\* two office entries share a value under different field keys, and the error names both
C10_Witness ==
    /\ Returned("validate_offices")
    /\ \E v \in OfficeValues :
         /\ Cardinality(Holders(last.person, v)) = 2
         /\ \E a, b \in Holders(last.person, v) :
              /\ a[1] < b[1]
              /\ last.person.contact_details[a[1]][a[2]][1]
                    # last.person.contact_details[b[1]][b[2]][1]
         /\ Cardinality(DupValueErrors(last.ret, v)) = 1

\* the office pairs m < n holding the same value under the same field key
SameKeyPairs(cd) ==
    {t \in (DOMAIN cd) \X (DOMAIN cd) \X OfficeFieldKeys :
        /\ t[1] < t[2]
        /\ t[3] \in OfficeKeys(cd[t[1]]) \cap OfficeKeys(cd[t[2]])
        /\ OfficeGet(cd[t[1]], t[3]) = OfficeGet(cd[t[2]], t[3])}

\* C10 as stated: one error naming both labels for two entries sharing a
\* value under the same key, and no duplicate-value error when no two
\* entries share a value under the same key.
C10_AsStated ==
    Returned("validate_offices") =>
        LET cd == Get(last.person, "contact_details", << >>)
            ret == last.ret
        IN  /\ \A t \in SameKeyPairs(cd) :
                 Cardinality({i \in DupValueErrors(ret, OfficeGet(cd[t[1]], t[3])) :
                                 /\ ret.errors[i][3] = OfficeGet(cd[t[1]], "note")
                                 /\ ret.errors[i][5] = OfficeGet(cd[t[2]], "note")}) = 1
            /\ SameKeyPairs(cd) = {} =>
                 \A v \in OfficeValues : DupValueErrors(ret, v) = {}

-----------------------------------------------------------------------------
(* Claims about the party memberships and the as-of date of validate_person. *)

\* validate_person returned
Called == last.op = "validate_person" /\ last.exc = None

\* the entries under the key that are active as of date (today if << >>)
ActiveEntries(person, key, date) ==
    LET entries == Get(person, key, << >>)
    IN  {i \in DOMAIN entries : role_is_active(entries[i], date, today)}

MajorEntries(person, S) == {i \in S : person.party[i].name \in MAJOR_PARTIES}

\* the warnings the call added for its filename
AddedWarnings ==
    LET all == Get(warnings, last.filename, << >>)
    IN  SubSeq(all, Len(last.before) + 1, Len(all))

MajorErrors(errs) ==
    {i \in DOMAIN errs : errs[i][1] = "multiple active major party memberships"}

PartyWarnings(warns) ==
    {i \in DOMAIN warns : warns[i][1] = "multiple active party memberships"}

\* what the claims say of the party memberships that are active as of date
PartyVerdict(date) ==
    LET active == ActiveEntries(last.person, "party", date)
        major == MajorEntries(last.person, active)
        errs == MajorErrors(errors[last.filename])
        warns == PartyWarnings(AddedWarnings)
    IN  /\ errs # {} <=> (Cardinality(active) > 1 /\ Cardinality(major) > 1)
        /\ warns # {} <=> (Cardinality(active) > 1 /\ Cardinality(major) <= 1)
        /\ ~(errs # {} /\ warns # {})
        /\ Cardinality(active) <= 1 => (errs = {} /\ warns = {})

\* C8 as stated: under a date override d, validate_person decides by d
\* whether a role or a party membership is active: in the role-count check of
\* "roles", in the role-count check of "party", in the set of the active
\* parties, and in the role the legislator is registered under.
C8_AsStated ==
    (Called /\ options.date # << >>) =>
        LET roles == ActiveEntries(last.person, "roles", options.date)
            parties == ActiveEntries(last.person, "party", options.date)
            errs == Range(errors[last.filename])
            unseated == Get(Get(active_legislators, None, EmptyDict), None, << >>)
        IN  /\ last.person_type = "LEGISLATIVE" =>
                 /\ <<"no active ", "roles">> \in errs <=> roles = {}
                 /\ <<"no active ", "party">> \in errs <=> parties = {}
                 /\ last.filename \in Range(unseated) <=> roles = {}
            /\ PartyVerdict(options.date)

\* C9: validate_person adds the error "multiple active major party
\* memberships" iff more than one party membership is active and more than
\* one of the active ones is of a major party; it adds the warning "multiple
\* active party memberships" iff more than one is active and at most one of
\* them is of a major party; never both; and neither when at most one
\* membership is active.  A membership is active as validate_person finds
\* it: as of the day of the run.
C9_PartyMemberships == Called => PartyVerdict(<< >>)

\* three active memberships, two of them of major parties: the error and no warning
C9_Witness ==
    /\ Called
    /\ Cardinality(ActiveEntries(last.person, "party", << >>)) = 3
    /\ Cardinality(MajorEntries(last.person, ActiveEntries(last.person, "party", << >>))) = 2
    /\ MajorErrors(errors[last.filename]) # {}
    /\ AddedWarnings = << >>

-----------------------------------------------------------------------------
(* validate_obj called on its own: records with some of the declared       *)
(* fields left out.                                                        *)

MaxAbsent == 2

\* a record with a value for every field of PERSON_FIELDS; the image, a
\* link and a phone number fail their validators
FullPerson ==
    [id |-> Id1, name |-> "Al Roe", sort_name |-> "Roe", given_name |-> "Al",
     family_name |-> "Roe", middle_name |-> "Bo", email |-> "al@example.com",
     suffix |-> "Jr.", gender |-> "Male", biography |-> "line one\nline two",
     birth_date |-> 1, death_date |-> 2, image |-> "janedoe",
     contact_details |-> << CapitolOffice, << <<"voice", "5550001">> >> >>,
     links |-> << [url |-> "https://example.com/a"], [note |-> "home"] >>,
     ids |-> [twitter |-> "janedoe"],
     other_identifiers |-> << [scheme |-> "twitter"] >>,
     other_names |-> << [start_date |-> 1] >>,
     sources |-> << [url |-> "@janedoe"] >>,
     party |-> << Member("Democratic"), [end_date |-> 1] >>,
     roles |-> << OpenRole("upper", "1", VA), [type |-> "governor"], [district |-> "1"] >>,
     extras |-> [twitter |-> "janedoe"]]

FullLegislativeRole ==
    [type |-> "upper", district |-> "1", jurisdiction |-> VA, start_date |-> 1,
     end_date |-> 2, end_reason |-> "line one\nline two",
     contact_details |-> << << <<"fax", "555-555-0001">> >> >>]

FullExecutiveRole ==
    [type |-> "governor", jurisdiction |-> NE, start_date |-> 1, end_date |-> 2,
     contact_details |-> << CapitolOffice >>]

\* the calls of the model: the record in full, its schema and the prefix
\* the schema is walked under
SchemaCalls ==
    { [obj |-> FullPerson, schema |-> PERSON_FIELDS, prefix |-> << >>],
      [obj |-> FullLegislativeRole, schema |-> LEGISLATIVE_ROLE_FIELDS, prefix |-> << >>],
      [obj |-> FullExecutiveRole, schema |-> EXECUTIVE_ROLE_FIELDS, prefix |-> << >>],
      [obj |-> [note |-> "home", url |-> "http://example.com/b"],
       schema |-> URL_LIST.subschema, prefix |-> <<"links", "0">>],
      [obj |-> [name |-> "Green", start_date |-> 1, end_date |-> 2],
       schema |-> DATED_NAME_FIELDS, prefix |-> <<"party", "1">>],
      [obj |-> [twitter |-> "@janedoe", youtube |-> "janedoe", instagram |-> "janedoe",
                facebook |-> "janedoe", legacy_openstates |-> "janedoe"],
       schema |-> PERSON_FIELDS[16][2].schema, prefix |-> <<"ids">>] }

\* the sets of at most n of the keys
RECURSIVE AtMost(_, _)
AtMost(keys, n) ==
    IF n = 0 THEN {{}}
    ELSE AtMost(keys, n - 1) \cup {S \cup {key} : S \in AtMost(keys, n - 1), key \in keys}

InitSchema ==
    /\ today \in {1}
    /\ pc = "call"
    /\ Idle
    /\ \E call \in SchemaCalls :
         \E absent \in AtMost(DOMAIN call.obj, MaxAbsent) :
            last = [op |-> "validate_obj",
                    obj |-> [key \in DOMAIN call.obj \ absent |-> call.obj[key]],
                    schema |-> call.schema, prefix |-> call.prefix,
                    ret |-> Return(<< >>)]

CallValidateObj ==
    /\ last.op = "validate_obj"
    /\ Returns(validate_obj(last.obj, last.schema, last.prefix))

SpecSchema == InitSchema /\ [][CallValidateObj]_vars

-----------------------------------------------------------------------------
(* Claims about the expected seats, the schema, the key sets of the        *)
(* reconciliation, and the two tables validate_person fills.               *)

\* the vacancies declared for the seat
DeclaredFor(abbr, chamber, district) ==
    {i \in DOMAIN VacanciesOf(abbr) :
        /\ VacanciesOf(abbr)[i].chamber = chamber
        /\ Str(VacanciesOf(abbr)[i].district) = district}

AllOpen(abbr) ==
    \A i \in DOMAIN VacanciesOf(abbr) : today < VacanciesOf(abbr)[i].vacant_until

\* the metadata's seats less one per vacancy declared for the seat
SeatsLessVacancies(abbr) ==
    [chamber \in DOMAIN MetadataSeats(abbr) |->
        [district \in DOMAIN MetadataSeats(abbr)[chamber] |->
            MetadataSeats(abbr)[chamber][district]
               - Cardinality(DeclaredFor(abbr, chamber, district))]]

\* C11: when every vacancy declared for the batch has its vacant_until in
\* the future, get_expected_districts raises nothing and the expected seats
\* are the metadata's, less one per declaration for the seat of the
\* declaration and unchanged for every other seat; this table is the one
\* the Validator holds while the records are validated and the one the
\* reconciliation of the batch compares against.
C11_OpenVacancies ==
    /\ (last.op = "Validator" /\ AllOpen(last.abbr)) =>
          /\ last.exc = None
          /\ pc = "validate"
          /\ expected = SeatsLessVacancies(last.abbr)
    /\ pc = "validate" =>
          /\ AllOpen(batch.abbr)
          /\ expected = SeatsLessVacancies(batch.abbr)
    /\ last.op = "print_validation_report" =>
          /\ last.self.expected = SeatsLessVacancies(last.abbr)
          /\ last.districts = compare_districts(SeatsLessVacancies(last.abbr),
                                                last.self.active_legislators)

\* two open vacancies on the two seats of one district and a senator filed:
\* the reconciliation expects nobody in the district
C11_Witness ==
    /\ last.op = "print_validation_report"
    /\ last.abbr = "va"
    /\ Cardinality(DeclaredFor("va", "lower", "1")) = 2
    /\ last.self.expected["lower"]["1"] = 0
    /\ last.self.expected["lower"]["2"] = 1
    /\ last.self.expected["upper"]["1"] = 1
    /\ DOMAIN last.self.active_legislators = {"upper"}

\* the field path an error of validate_obj is about
PathOf(e) ==
    CASE e[1] = "missing" -> Tail(e)
      [] e[1] = "extra key" -> Tail(e)
      [] e[1] = "failed validation" -> SubSeq(e, 4, Len(e))
      [] OTHER -> <<e[1], e[2]>>

\* the errors about the field itself, or about something under it
AboutField(errs, prefix, field) ==
    {i \in DOMAIN errs :
        \/ PathOf(errs[i]) = prefix \o <<field>>
        \/ Len(PathOf(errs[i])) >= 2 /\ PathOf(errs[i])[1] = field}

IsRequired(validators) ==
    /\ validators.kind = "list"
    /\ \E i \in DOMAIN validators.validators : validators.validators[i] = Required

\* the entries of the schema whose field the record lacks
AbsentEntries(obj, schema) == {k \in DOMAIN schema : schema[k][1] \notin DOMAIN obj}

\* C12: for a field the schema declares and the record lacks, validate_obj
\* returns exactly one error about the field, "<path>.<field> missing", when
\* Required is among its validators, and no error about the field when it is
\* not: no other validator of the field reports and nothing is reported from
\* under the field.
C12_MissingFields ==
    Returned("validate_obj") =>
        /\ last.ret.exc = None
        /\ \A k \in AbsentEntries(last.obj, last.schema) :
              LET field == last.schema[k][1]
                  about == AboutField(last.ret.errors, last.prefix, field)
              IN  IF IsRequired(last.schema[k][2])
                    THEN /\ Cardinality(about) = 1
                         /\ \A i \in about :
                               last.ret.errors[i] = <<"missing">> \o last.prefix \o <<field>>
                    ELSE about = {}

\* a person without the required name and without its roles: one error for
\* the name and none for the roles
C12_Witness ==
    /\ Returned("validate_obj")
    /\ last.schema = PERSON_FIELDS
    /\ DOMAIN FullPerson \ DOMAIN last.obj = {"name", "roles"}
    /\ <<"missing", "name">> \in Range(last.ret.errors)
    /\ AboutField(last.ret.errors, << >>, "roles") = {}
    /\ AboutField(last.ret.errors, << >>, "party") # {}

\* the error is the key-set error and names the two key sets
NamesKeySets(e, expected_keys, actual_keys) ==
    /\ e[1] = "expected districts for"
    /\ \E n \in DOMAIN e :
          /\ e[n] = "got"
          /\ {e[i] : i \in 2..(n - 1)} = expected_keys
          /\ {e[i] : i \in (n + 1)..Len(e)} = actual_keys
          /\ Len(e) = 2 + Cardinality(expected_keys) + Cardinality(actual_keys)

IsDistrictError(e) ==
    e[1] \in {"missing legislator for", "extra legislator for",
              "extra legislator for unexpected seat"}

\* C13: when the chamber types of the expected seats differ from the chamber
\* keys of the active legislators, compare_districts returns exactly one
\* error, which names the two key sets, and no error about a district; when
\* they are equal, it returns no key-set error.
C13_KeySets ==
    Reported =>
        LET expected_keys == DOMAIN last.self.expected
            actual_keys == DOMAIN last.self.active_legislators
            errs == last.districts.errors
        IN  /\ last.districts.exc = None
            /\ expected_keys # actual_keys =>
                  /\ Len(errs) = 1
                  /\ NamesKeySets(errs[1], expected_keys, actual_keys)
                  /\ ~IsDistrictError(errs[1])
            /\ expected_keys = actual_keys =>
                  \A i \in DOMAIN errs : errs[i][1] # "expected districts for"

\* every expected chamber has a legislator, one more is registered under
\* None, a seat is short, and the key-set error is all there is
C13_Witness ==
    /\ Reported
    /\ DOMAIN last.self.active_legislators = DOMAIN last.self.expected \cup {None}
    /\ Short(last.self.expected, last.self.active_legislators) # {}
    /\ Len(last.districts.errors) = 1
    /\ last.districts.errors[1][1] = "expected districts for"

\* the filenames a table of legislators holds under (chamber, district)
Entries(table, chamber, district) ==
    IF chamber \in DOMAIN table /\ district \in DOMAIN table[chamber]
      THEN table[chamber][district]
      ELSE << >>

KeysOf(table) == {<<ch, d>> : ch \in DOMAIN table, d \in UNION {DOMAIN table[c] : c \in DOMAIN table}}

\* after holds what before holds and filename once more under key
RegisteredUnder(before, after, key, filename) ==
    \A k \in KeysOf(before) \cup KeysOf(after) \cup {key} :
        Entries(after, k[1], k[2]) =
            IF k = key THEN Entries(before, k[1], k[2]) \o <<filename>>
            ELSE Entries(before, k[1], k[2])

\* the (type, district) of the roles of person that are active as of date
ActiveSeats(person, date, now) ==
    LET roles == Get(person, "roles", << >>)
    IN  {<<roles[n].type, Get(roles[n], "district", None)>> :
            n \in {m \in DOMAIN roles : role_is_active(roles[m], date, now)}}

\* a step in which a call of validate_person returns
PersonValidated == pc = "validate" /\ batch'.ncalls = batch.ncalls + 1

\* C14: a validate_person call on a LEGISLATIVE record registers the filename
\* under exactly one key, the (type, district) of a role of the record that is
\* active as of the as-of date, and a call on a record of another type leaves
\* the table of active legislators unchanged.
C14_AsStated ==
    [][PersonValidated =>
        IF last'.person_type = "LEGISLATIVE"
          THEN \E key \in ActiveSeats(last'.person, options.date, today) :
                  RegisteredUnder(active_legislators, active_legislators', key,
                                  last'.filename)
          ELSE active_legislators' = active_legislators]_vars

\* what the code does: a LEGISLATIVE record without an active role is
\* registered under (None, None)
C14_FirstActiveOrNone ==
    [][PersonValidated =>
        IF last'.person_type = "LEGISLATIVE"
          THEN \E key \in IF ActiveSeats(last'.person, options.date, today) = {}
                            THEN {<<None, None>>}
                            ELSE ActiveSeats(last'.person, options.date, today) :
                  RegisteredUnder(active_legislators, active_legislators', key,
                                  last'.filename)
          ELSE active_legislators' = active_legislators]_vars

\* the distinct filenames registered for (scheme, value)
Registrants(dups, scheme, value) ==
    LET instances == Entries(dups, scheme, value)
    IN  {instances[j] : j \in DOMAIN instances}

\* C15: check_duplicates reports a duplicate for a (scheme, value) only if at
\* least two distinct filenames registered the value; one record that carries
\* the value twice, or one filename validated twice, yields no such error.
C15_AsStated ==
    Reported =>
        \A i \in DOMAIN last.duplicates :
            last.duplicates[i][1] = "duplicate" =>
                Cardinality(Registrants(last.self.duplicate_values,
                                        last.duplicates[i][2],
                                        last.duplicates[i][3])) >= 2

====
